---- MODULE Spec2Model ----
(***************************************************************************)
(* Model of examples/example.py: the greeting routine greet, the iterative *)
(* fibonacci routine and the Rectangle class.  The program is sequential:  *)
(* a caller invokes the three units in any order.  fibonacci is modelled   *)
(* statement by statement (call, one action per loop iteration, return)    *)
(* so that its loop invariant and its termination can be stated; greet and *)
(* the Rectangle constructor are single atomic steps.                      *)
(***************************************************************************)
EXTENDS Integers, Sequences, FiniteSets

\* ---- bounds of the model --------------------------------------------------
MaxNeg == 1         \* in SpecFibLive the indices start at -MaxNeg
MaxN == 10          \* greatest index passed to fibonacci in SpecFib
MaxLive == 6        \* greatest index passed to fibonacci in SpecFibLive
MaxArg == 2         \* greatest index passed to fibonacci in Spec
MaxOut == 2         \* greatest number of lines written to the output
MaxRects == 2       \* greatest number of Rectangle objects alive

Names == {"", "World"}
Widths == {0, 3}
Heights == {3, 4}
FibArgs == (-1)..MaxN
LiveArgs == (-MaxNeg)..MaxLive
ProgArgs == (-1)..MaxArg

VARIABLES
    out,        \* the text written so far, one element per line written
    rects,      \* the Rectangle objects constructed so far
    call,       \* <<operation, arguments>> of the latest call
    ret,        \* <<kind, value>> returned by the latest completed call
    pc,         \* position of the fibonacci frame: "idle", "loop" or "done"
    n,          \* fibonacci's parameter
    prev,       \* fibonacci's local prev
    curr,       \* fibonacci's local curr
    i,          \* the index the for loop processed last (1 before any)
    steps,      \* number of loop iterations executed by the latest call
    returned,   \* every <<n, result>> a fibonacci call has returned
    repeated    \* the latest fibonacci call's n had been passed before

vars == <<out, rects, call, ret, pc, n, prev, curr, i, steps, returned, repeated>>
frame == <<pc, n, prev, curr, i, steps, returned, repeated>>

NoneVal == <<"None", 0>>
IntVal(v) == <<"int", v>>
ObjVal(k) == <<"Rectangle", k>>

\* ---- greet ---------------------------------------------------------------
GreetingNoComma(name) == "Hello " \o name \o "!"

\* f"Hello, {name}!"
Greeting(name) == "Hello, " \o name \o "!"

WriteLineTwice(o, text) == o \o <<text, text>>

\* the built-in output call: one more line of output
WriteLine(o, text) == Append(o, text)

Greet(name) ==
    /\ pc # "loop"
    /\ Len(out) < MaxOut
    /\ out' = WriteLine(out, Greeting(name))
    /\ call' = <<"greet", <<name>>>>
    /\ ret' = NoneVal
    /\ UNCHANGED <<rects, frame>>

\* ---- Rectangle -----------------------------------------------------------
RectangleInitSwapped(width, height) == [width |-> height, height |-> width]

\* self.width = width; self.height = height
RectangleInit(width, height) == [width |-> width, height |-> height]

\* width and height stored on the class: every instance reads the latest
ConstructShared(heap, width, height) ==
    [k \in 1..(Len(heap) + 1) |-> RectangleInit(width, height)]

\* the heap after Rectangle(width, height)
Construct(heap, width, height) == Append(heap, RectangleInit(width, height))

NewRectangle(width, height) ==
    /\ pc # "loop"
    /\ Len(rects) < MaxRects
    /\ rects' = Construct(rects, width, height)
    /\ call' = <<"Rectangle", <<width, height>>>>
    /\ ret' = ObjVal(Len(rects) + 1)
    /\ UNCHANGED <<out, frame>>

\* ---- fibonacci -----------------------------------------------------------
\* if n <= 1
IsBase(nn) == nn <= 1

BaseValueClamped(nn) == IF nn < 0 THEN 0 ELSE nn

\* return n
BaseValue(nn) == nn

InitPairOnes == <<1, 1>>

\* prev and curr kept between calls instead of being set anew
InitPairStale == IF pc = "idle" THEN <<0, 1>> ELSE <<prev, curr>>

\* prev, curr = 0, 1
InitPair == <<0, 1>>

\* range(1, n + 1)
RangeStartOne == 2 - 1

\* the first index of range(2, n + 1)
RangeStart == 2

\* prev = curr; curr = prev + curr, one after the other
LoopBodySequential(p, c) == <<c, c + c>>

\* prev, curr = curr, prev + curr
LoopBody(p, c) == <<c, p + c>>

\* range(2, n)
HasNextExclusive(j, nn) == j + 1 < nn

\* range(2, n + 1) has a value after j
HasNext(j, nn) == j + 1 < nn + 1

RECURSIVE FibLoop(_, _, _, _)
FibLoop(p, c, j, nn) ==
    IF HasNext(j, nn)
    THEN FibLoop(LoopBody(p, c)[1], LoopBody(p, c)[2], j + 1, nn)
    ELSE c

\* the whole function as an operator
fibonacci(nn) ==
    IF IsBase(nn) THEN BaseValue(nn)
    ELSE FibLoop(InitPair[1], InitPair[2], RangeStart - 1, nn)

\* the call and the statements up to the loop (or the early return)
FibCall(nn) ==
    /\ pc # "loop"
    /\ call' = <<"fibonacci", <<nn>>>>
    /\ n' = nn
    /\ repeated' = (\E p \in returned : p[1] = nn)
    /\ steps' = 0
    /\ IF IsBase(nn)
       THEN /\ pc' = "done"
            /\ ret' = IntVal(BaseValue(nn))
            /\ returned' = returned \cup {<<nn, BaseValue(nn)>>}
            /\ prev' = 0
            /\ curr' = 0
            /\ i' = 0
       ELSE /\ pc' = "loop"
            /\ prev' = InitPair[1]
            /\ curr' = InitPair[2]
            /\ i' = RangeStart - 1
            /\ UNCHANGED <<ret, returned>>
    /\ UNCHANGED <<out, rects>>

\* one iteration of the for loop
FibStep ==
    /\ pc = "loop"
    /\ HasNext(i, n)
    /\ i' = i + 1
    /\ prev' = LoopBody(prev, curr)[1]
    /\ curr' = LoopBody(prev, curr)[2]
    /\ steps' = steps + 1
    /\ UNCHANGED <<out, rects, call, ret, pc, n, returned, repeated>>

\* the range is exhausted: return curr
FibReturn ==
    /\ pc = "loop"
    /\ ~HasNext(i, n)
    /\ pc' = "done"
    /\ ret' = IntVal(curr)
    /\ returned' = returned \cup {<<n, curr>>}
    /\ UNCHANGED <<out, rects, call, n, prev, curr, i, steps, repeated>>

\* ---- specifications ------------------------------------------------------
Init ==
    /\ out = <<>>
    /\ rects = <<>>
    /\ call = <<"none", <<>>>>
    /\ ret = NoneVal
    /\ pc = "idle"
    /\ n = 0
    /\ prev = 0
    /\ curr = 0
    /\ i = 0
    /\ steps = 0
    /\ returned = {}
    /\ repeated = FALSE

\* the whole program: any sequence of calls of the three units
Next ==
    \/ \E name \in Names : Greet(name)
    \/ \E width \in Widths, height \in Heights : NewRectangle(width, height)
    \/ \E nn \in ProgArgs : FibCall(nn)
    \/ FibStep
    \/ FibReturn

Spec == Init /\ [][Next]_vars

\* fibonacci alone, over a larger range of indices
NextFib ==
    \/ \E nn \in FibArgs : FibCall(nn)
    \/ FibStep
    \/ FibReturn

SpecFib == Init /\ [][NextFib]_vars

\* a started call runs on: the interpreter executes the next statement
NextLive ==
    \/ \E nn \in LiveArgs : FibCall(nn)
    \/ FibStep
    \/ FibReturn

SpecFibLive == Init /\ [][NextLive]_vars /\ WF_vars(FibStep) /\ WF_vars(FibReturn)

\* ---- properties ----------------------------------------------------------
\* the Fibonacci sequence: F(0) = 0, F(1) = 1, F(k) = F(k-1) + F(k-2)
RECURSIVE F(_)
F(k) == IF k <= 0 THEN 0 ELSE IF k = 1 THEN 1 ELSE F(k - 1) + F(k - 2)

\* a fibonacci call has returned and its value is in ret
Returned == pc = "done" /\ call[1] = "fibonacci"

\* C1: for every n >= 2 the value a call fibonacci(n) returns is
\* fibonacci(n-1) + fibonacci(n-2), and it is the n-th term of the
\* Fibonacci sequence starting 0, 1.
C1_Recurrence ==
    (Returned /\ n >= 2) =>
        /\ ret = IntVal(fibonacci(n - 1) + fibonacci(n - 2))
        /\ ret = IntVal(F(n))
C1_Witness == Returned /\ n = 7 /\ ret = IntVal(13)

\* C2: fibonacci returns 0 for n = 0, 1 for n = 1 and 55 for n = 10.
C2_Values ==
    Returned =>
        /\ n = 0 => ret = IntVal(0)
        /\ n = 1 => ret = IntVal(1)
        /\ n = 10 => ret = IntVal(55)
C2_Witness == Returned /\ n = 10 /\ ret = IntVal(55) /\ <<0, 0>> \in returned /\ <<1, 1>> \in returned

\* C3: after a call greet(s) the last line of the output is
\* "Hello, " + s + "!" and the call returned no value.
C3_Greeting ==
    call[1] = "greet" =>
        /\ out # <<>>
        /\ out[Len(out)] = "Hello, " \o call[2][1] \o "!"
        /\ ret = NoneVal
C3_Witness == call = <<"greet", <<"World">>>> /\ out[Len(out)] = "Hello, World!"

\* C4: Rectangle(w, h) returns an object whose width reads w and whose
\* height reads h.
C4_Stored ==
    call[1] = "Rectangle" =>
        /\ ret[1] = "Rectangle"
        /\ ret[2] \in 1..Len(rects)
        /\ rects[ret[2]].width = call[2][1]
        /\ rects[ret[2]].height = call[2][2]
C4_Witness ==
    /\ call = <<"Rectangle", <<3, 4>>>>
    /\ rects[ret[2]].width = 3
    /\ rects[ret[2]].height = 4

\* C5: whatever calls of greet, fibonacci and Rectangle came before, every
\* call fibonacci(n) with the same n returned the same result.
C5_Pure == \A p \in returned, q \in returned : p[1] = q[1] => p[2] = q[2]
C5_Witness ==
    /\ Returned
    /\ repeated
    /\ n >= 2
    /\ out # <<>>
    /\ rects # <<>>

\* C6: no step of the program changes the width or the height of a
\* Rectangle that exists.
C6_Immutable ==
    [][\A k \in 1..Len(rects) : k <= Len(rects') /\ rects'[k] = rects[k]]_vars
C6_Witness ==
    /\ Len(rects) = 2
    /\ rects[1] = [width |-> 3, height |-> 4]
    /\ rects[2] = [width |-> 0, height |-> 3]
    /\ call[1] = "greet"
    /\ pc = "done"

\* C7: for every n <= 1, negative n included, fibonacci(n) returns n and
\* executes no loop step.
C7_Base == (Returned /\ n <= 1) => (ret = IntVal(n) /\ steps = 0)
C7_Witness == Returned /\ n < 0 /\ ret = IntVal(n) /\ <<1, 1>> \in returned

\* C8: in fibonacci(n) with n >= 2 the pair (prev, curr) starts at (0, 1),
\* each loop step replaces it with (curr, prev + curr), after the step for
\* index i it is (F(i-1), F(i)), and the value returned is curr after the
\* step for index n.
C8_LoopInvariant ==
    /\ [](pc = "loop" =>
            /\ n >= 2
            /\ i \in 1..n
            /\ i = 1 => <<prev, curr>> = <<0, 1>>
            /\ <<prev, curr>> = <<F(i - 1), F(i)>>)
    /\ [][(pc = "loop" /\ pc' = "loop") =>
            (i' = i + 1 /\ prev' = curr /\ curr' = prev + curr)]_vars
    /\ [][(pc = "loop" /\ pc' = "done") =>
            (i = n /\ ret' = IntVal(curr) /\ curr = F(n))]_vars
C8_Witness == pc = "loop" /\ n = 8 /\ i = 6 /\ prev = 5 /\ curr = 8

\* C9: every call fibonacci(n) returns, after exactly n - 1 loop steps
\* when n >= 2 and after none when n <= 1.
C9_Terminates ==
    /\ [](pc = "loop" => <>(pc = "done"))
    /\ [](Returned => steps = IF n >= 2 THEN n - 1 ELSE 0)
C9_Witness == Returned /\ n = 6 /\ steps = 5

\* C10: a step of fibonacci or of the Rectangle constructor leaves the
\* output as it is; a call of greet appends exactly one line to the output
\* and leaves every Rectangle as it is.
C10_Frame ==
    [][/\ ((\E nn \in FibArgs \cup ProgArgs : FibCall(nn)) \/ FibStep \/ FibReturn
            \/ (\E width \in Widths, height \in Heights : NewRectangle(width, height)))
          => out' = out
       /\ (\E name \in Names : Greet(name))
          => /\ Len(out') = Len(out) + 1
             /\ SubSeq(out', 1, Len(out)) = out
             /\ rects' = rects]_vars
C10_Witness ==
    /\ call[1] = "greet"
    /\ Len(out) = 2
    /\ rects # <<>>
    /\ \E p \in returned : p[1] >= 2
====
